---- MODULE Spec2Model ----
(***************************************************************************)
(* QGeoloGIS: configuration export / import / clean-up (config.py) and the *)
(* legend's number formatting (qgeologis/legend_item.py).                  *)
(*                                                                         *)
(* Strings that the code formats or splits are sequences of one-character  *)
(* strings, so that "{}#{}#{}".format and str.split('#') are computed.     *)
(* A Python dict is a sequence of [key, cfg] entries with distinct keys    *)
(* (insertion order kept, assignment to an existing key replaces in place).*)
(***************************************************************************)
EXTENDS Integers, Sequences, FiniteSets, TLC

VARIABLES
    project,      \* QgsProject.instance(): layer id -> [source, name, provider, filter]
    main_config,  \* the caller's in-memory configuration dict (root layer id -> lists)
    file,         \* the JSON file written by export_config / read by import_config
    imported,     \* what the last import_config call returned (or that it raised)
    used,         \* the layer identifiers handed out so far (none is given twice)
    op,           \* the last operation and its arguments
    before,       \* project and main_config as they were when the last operation began
    min_value,    \* LegendItem.__min_value: <<>> for None, <<v>> for a number
    max_value,    \* LegendItem.__max_value
    min_str,      \* the text paint drew for the minimum (<<>> when none was drawn)
    max_str,      \* the text paint drew for the maximum
    num_decimals, \* paint's num_decimals when its loop ended (0 when it did not run)
    painted,      \* whether paint has run
    heap,         \* the plot dicts: address -> [source, symbology, symbology_type]
    mem,          \* the main configuration dict; its lists hold addresses of plot dicts
    persisted,    \* the project entry ("QGeoloGIS", "config"): the JSON text last written
    objs,         \* the PlotConfig objects: [dict, parent] (parent: has a LayerConfig)
    pop           \* the last LayerConfig / PlotConfig call

cfgvars == <<project, main_config, file, imported, used, op, before>>
legvars == <<min_value, max_value, min_str, max_str, num_decimals, painted>>
pervars == <<heap, mem, persisted, objs, pop>>
vars == <<cfgvars, legvars, pervars>>

(***************************************************************************)
(* Bounds                                                                  *)
(***************************************************************************)
MaxId == 4        \* size of the pool of layer identifiers
MaxPlots == 1     \* plot entries in the initial configuration
MaxOps == 3       \* operations per run
MaxDicts == 2     \* plot dicts the caller creates
MaxEntries == 2   \* plot entries in the lists of the persisted configuration

Ids == 1..MaxId
InitIds == {2, 3}

Sources == {<<"a">>, <<"b">>}
Names == {<<"n">>, <<"m">>}
Providers == {<<"o">>, <<"p", "#">>}
Filters == {"", "f"}
NoFilter == ""

SubKeys == <<"stratigraphy_config", "log_measures", "timeseries">>

(***************************************************************************)
(* Helpers                                                                 *)
(***************************************************************************)
Min(S) == CHOOSE m \in S : \A k \in S : m <= k

Range(s) == {s[i] : i \in DOMAIN s}

\* a reference held in a plot entry's "source": a layer id, or a portable triple
IdRef(i) == [id |-> i]
Triple(l) == [source |-> l.source, name |-> l.name, provider |-> l.provider]
IsTriple(r) == DOMAIN r = {"source", "name", "provider"}

EmptySub == [stratigraphy_config |-> <<>>, log_measures |-> <<>>, timeseries |-> <<>>]

Plots(sub) == sub.stratigraphy_config \o sub.log_measures \o sub.timeseries

RECURSIVE AllPlots(_)
AllPlots(d) == IF d = <<>> THEN <<>> ELSE Plots(Head(d).cfg) \o AllPlots(Tail(d))

Keys(d) == {d[i].key : i \in DOMAIN d}

\* d[key] = val on a Python dict
DictSet(d, key, val) ==
    IF key \in Keys(d)
    THEN [i \in DOMAIN d |-> IF d[i].key = key THEN [key |-> key, cfg |-> val] ELSE d[i]]
    ELSE Append(d, [key |-> key, cfg |-> val])

\* all ways to hand out n distinct identifiers of S, in order
Orders(S, n) == {s \in [1..n -> S] : \A i, j \in DOMAIN s : s[i] = s[j] => i = j}

\* the identifiers of S in increasing order
RECURSIVE Ascending(_)
Ascending(S) == IF S = {} THEN <<>> ELSE <<Min(S)>> \o Ascending(S \ {Min(S)})

(***************************************************************************)
(* export_config                                                           *)
(***************************************************************************)
\* line 221: "{}#{}#{}".format(source, name, provider)
RootKeyNameLast(l) == l.source \o <<"#">> \o l.provider \o <<"#">> \o l.name

RootKey(l) == l.source \o <<"#">> \o l.name \o <<"#">> \o l.provider

\* lines 210-219: one plot entry; a source id the project does not know is left as it is
ExportPlot(proj, p) ==
    IF p.source.id \in DOMAIN proj
    THEN [p EXCEPT !.source = Triple(proj[p.source.id])]
    ELSE p

\* lines 208-219: the three lists of one root layer
ExportSub(proj, sub) ==
    [k \in DOMAIN sub |-> [i \in DOMAIN sub[k] |-> ExportPlot(proj, sub[k][i])]]

\* lines 202-222: the loop over the root layers; a root layer the project does not
\* know is skipped
RECURSIVE ExportWalk(_, _, _)
ExportWalk(proj, items, new_dict) ==
    IF items = <<>> THEN new_dict
    ELSE LET e == Head(items)
         IN  IF e.key \notin DOMAIN proj
             THEN ExportWalk(proj, Tail(items), new_dict)
             ELSE ExportWalk(proj, Tail(items),
                             DictSet(new_dict, RootKey(proj[e.key]), ExportSub(proj, e.cfg)))

\* the dict that json.dump writes
ExportFile(proj, config) == ExportWalk(proj, config, <<>>)

\* lines 195-197: main_config is rebound to a deep copy, so the dict that the loop
\* writes into (lines 215-219) is not the caller's
ExportCallerAliased(proj, config) ==
    [i \in DOMAIN config |->
        IF config[i].key \in DOMAIN proj
        THEN [key |-> config[i].key, cfg |-> ExportSub(proj, config[i].cfg)]
        ELSE config[i]]

ExportCaller(proj, config) == config

(***************************************************************************)
(* import_config                                                           *)
(***************************************************************************)
\* str.split('#')
RECURSIVE SplitFrom(_, _)
SplitFrom(s, cur) ==
    IF s = <<>> THEN <<cur>>
    ELSE IF Head(s) = "#" THEN <<cur>> \o SplitFrom(Tail(s), <<>>)
    ELSE SplitFrom(Tail(s), Append(cur, Head(s)))

Split(s) == SplitFrom(s, <<>>)

\* lines 253-254: the layers of the project that the triple may reuse
MatchingSourceOnly(proj, source, provider) ==
    {i \in DOMAIN proj : proj[i].source = source}

Matching(proj, source, provider) ==
    {i \in DOMAIN proj : proj[i].source = source /\ proj[i].provider = provider}

\* QgsVectorLayer(source, name, provider): a layer with no subset string
NewLayer(source, name, provider) ==
    [source |-> source, name |-> name, provider |-> provider, filter |-> NoFilter]

\* The walk of import_config threads st = [proj, fresh, oom, log]: the project, the
\* identifiers that new layers will get (in order), whether the pool ran dry, and
\* the list of [triple, id, root] resolutions made so far.

\* lines 255-256: the matching layer is renamed and returned
ReuseNoRename(st, id, name) == [st |-> st, id |-> id]

Reuse(st, id, name) ==
    [st |-> [st EXCEPT !.proj = [st.proj EXCEPT ![id].name = name]], id |-> id]

\* lines 258-260: a new layer is made and added to the project
Create(st, source, name, provider) ==
    IF st.fresh = <<>>
    THEN [st |-> [st EXCEPT !.oom = TRUE], id |-> 0]
    ELSE LET id == Head(st.fresh)
         IN  [st |-> [st EXCEPT !.proj = (id :> NewLayer(source, name, provider)) @@ st.proj,
                                !.fresh = Tail(st.fresh)],
              id |-> id]

\* lines 251-260. QgsProject.mapLayers() is a map sorted by identifier: the first
\* match is the one with the least identifier.
FindIgnoringFlag(st, source, name, provider, do_overwrite) ==
    LET m == Matching(st.proj, source, provider)
    IN  IF m # {} THEN Reuse(st, Min(m), name) ELSE Create(st, source, name, provider)

find_existing_layer_or_create(st, source, name, provider, do_overwrite) ==
    LET m == Matching(st.proj, source, provider)
    IN  IF do_overwrite /\ m # {}
        THEN Reuse(st, Min(m), name)
        ELSE Create(st, source, name, provider)

\* one call of find_existing_layer_or_create, recorded in st.log
Resolve(st, t, ow, root) ==
    LET r == find_existing_layer_or_create(st, t.source, t.name, t.provider, ow)
    IN  [st |-> [r.st EXCEPT !.log = Append(@, [triple |-> t, id |-> r.id, root |-> root])],
         id |-> r.id]

\* lines 271-277: one list. Returns [st, plots, ok]; ok is FALSE when
\* source["source"] raised (the entry's source is not a triple).
RECURSIVE ImportPlots(_, _, _)
ImportPlots(st, plots, ow) ==
    IF plots = <<>> THEN [st |-> st, plots |-> <<>>, ok |-> TRUE]
    ELSE LET p == Head(plots)
         IN  IF ~IsTriple(p.source)
             THEN [st |-> st, plots |-> <<>>, ok |-> FALSE]
             ELSE LET r == Resolve(st, p.source, ow, FALSE)
                      rest == ImportPlots(r.st, Tail(plots), ow)
                  IN  [st |-> rest.st,
                       plots |-> <<[p EXCEPT !.source = IdRef(r.id)]>> \o rest.plots,
                       ok |-> rest.ok]

\* lines 270-277: the three lists of one root layer, in the order of the tuple
ImportSub(st, sub, ow) ==
    LET a == ImportPlots(st, sub.stratigraphy_config, ow)
        b == IF a.ok THEN ImportPlots(a.st, sub.log_measures, ow)
             ELSE [st |-> a.st, plots |-> <<>>, ok |-> FALSE]
        c == IF b.ok THEN ImportPlots(b.st, sub.timeseries, ow)
             ELSE [st |-> b.st, plots |-> <<>>, ok |-> FALSE]
    IN  [st |-> c.st,
         sub |-> [stratigraphy_config |-> a.plots, log_measures |-> b.plots,
                  timeseries |-> c.plots],
         ok |-> c.ok]

\* lines 263-280: the loop over the file's entries. Returns [st, config, ok]; ok is
\* FALSE when the call raised (a key that does not split into three parts, or a plot
\* source that is not a triple); the layers added until then stay in the project.
RECURSIVE ImportWalk(_, _, _, _)
ImportWalk(st, items, new_config, ow) ==
    IF items = <<>> THEN [st |-> st, config |-> new_config, ok |-> TRUE]
    ELSE LET e == Head(items)
             parts == Split(e.key)
         IN  IF Len(parts) # 3
             THEN [st |-> st, config |-> new_config, ok |-> FALSE]
             ELSE LET t == [source |-> parts[1], name |-> parts[2], provider |-> parts[3]]
                      r == Resolve(st, t, ow, TRUE)
                      s == ImportSub(r.st, e.cfg, ow)
                  IN  IF ~s.ok
                      THEN [st |-> s.st, config |-> new_config, ok |-> FALSE]
                      ELSE ImportWalk(s.st, Tail(items),
                                      DictSet(new_config, r.id, s.sub), ow)

ImportRun(proj, f, ow, fresh) ==
    ImportWalk([proj |-> proj, fresh |-> fresh, oom |-> FALSE, log |-> <<>>], f, <<>>, ow)

(***************************************************************************)
(* remove_layer_from_config                                                *)
(***************************************************************************)
\* lines 300-305: the list without the entries whose source is layer_id
FilterPlots(plots, layer_id) == SelectSeq(plots, LAMBDA p : p.source # IdRef(layer_id))

RemoveSub(sub, layer_id) == [k \in DOMAIN sub |-> FilterPlots(sub[k], layer_id)]

\* lines 294-305: the loop; at the root entry of layer_id, "del config" unbinds the
\* local name and the function returns: that entry and the ones after it are untouched
RECURSIVE RemoveWalk(_, _)
RemoveWalk(items, layer_id) ==
    IF items = <<>> THEN <<>>
    ELSE LET e == Head(items)
         IN  IF e.key = layer_id
             THEN items
             ELSE <<[key |-> e.key, cfg |-> RemoveSub(e.cfg, layer_id)]>>
                  \o RemoveWalk(Tail(items), layer_id)

remove_layer_from_config(config, layer_id) == RemoveWalk(config, layer_id)

(***************************************************************************)
(* legend_item.py: format_number and the value line of LegendItem.paint    *)
(*                                                                         *)
(* A float is [neg, ip, fr]: sign, integer part and fraction in units of   *)
(* 2^-16, so every value is one a binary float holds exactly and Python's  *)
(* correctly rounded formatting (ties to even) is computed on it exactly.  *)
(***************************************************************************)
FracUnits == 2^16

SciThreshold == 10000    \* line 122
MaxDecimals == 4         \* line 107
DefaultDecimals == 1     \* lines 106 and 121

RECURSIVE Pow10(_)
Pow10(n) == IF n = 0 THEN 1 ELSE 10 * Pow10(n - 1)

DigitChar(d) == <<"0", "1", "2", "3", "4", "5", "6", "7", "8", "9">>[d + 1]

RECURSIVE Digits(_)
Digits(k) == IF k < 10 THEN <<DigitChar(k)>> ELSE Digits(k \div 10) \o <<DigitChar(k % 10)>>

RECURSIVE ZeroPad(_, _)
ZeroPad(str, width) == IF Len(str) >= width THEN str ELSE ZeroPad(<<"0">> \o str, width)

\* q rounded up or not: ties go to the even neighbour
RoundHalfEven(q, twice_rem, den) ==
    IF twice_rem > den \/ (twice_rem = den /\ q % 2 = 1) THEN q + 1 ELSE q

\* f < 10000 and f <= 10000 on the representation
LessThan(v, bound) == v.neg \/ v.ip < bound
AtMost(v, bound) == LessThan(v, bound) \/ (v.ip = bound /\ v.fr = 0)

\* "{:.<n>f}".format(f)
FormatFixed(v, n) ==
    LET scaled == v.fr * Pow10(n)
        q == RoundHalfEven(scaled \div FracUnits, 2 * (scaled % FracUnits), FracUnits)
        carry == IF q = Pow10(n) THEN 1 ELSE 0
    IN  (IF v.neg THEN <<"-">> ELSE <<>>)
        \o Digits(v.ip + carry) \o <<".">> \o ZeroPad(Digits(q % Pow10(n)), n)

\* "{:.1e}".format(f), for f >= 10: a two-digit mantissa d.d and the exponent
FormatSci(v) ==
    LET e == Len(Digits(v.ip)) - 1
        d == Pow10(e - 1)
        q == RoundHalfEven(v.ip \div d, 2 * ((v.ip % d) * FracUnits + v.fr), d * FracUnits)
        m == IF q = 100 THEN 10 ELSE q
        x == IF q = 100 THEN e + 1 ELSE e
    IN  (IF v.neg THEN <<"-">> ELSE <<>>)
        \o <<DigitChar(m \div 10), ".", DigitChar(m % 10), "e", "+">> \o ZeroPad(Digits(x), 2)

\* lines 121-126
format_number_boundary(v, n) ==
    IF AtMost(v, SciThreshold) THEN FormatFixed(v, n) ELSE FormatSci(v)

format_number(v, n) ==
    IF LessThan(v, SciThreshold) THEN FormatFixed(v, n) ELSE FormatSci(v)

\* lines 107-110: the loop that raises the precision. In the variant the strings
\* are formatted before num_decimals is raised.
RECURSIVE PaintLoopStale(_, _, _, _, _)
PaintLoopStale(lo, hi, n, lo_str, hi_str) ==
    IF lo_str = hi_str /\ n < MaxDecimals
    THEN PaintLoopStale(lo, hi, n + 1, format_number(lo, n), format_number(hi, n))
    ELSE [min_str |-> lo_str, max_str |-> hi_str, num_decimals |-> n]

RECURSIVE PaintLoopRec(_, _, _, _, _)
PaintLoopRec(lo, hi, n, lo_str, hi_str) ==
    IF lo_str = hi_str /\ n < MaxDecimals
    THEN PaintLoopRec(lo, hi, n + 1, format_number(lo, n + 1), format_number(hi, n + 1))
    ELSE [min_str |-> lo_str, max_str |-> hi_str, num_decimals |-> n]

PaintLoop(lo, hi, n, lo_str, hi_str) == PaintLoopRec(lo, hi, n, lo_str, hi_str)

\* lines 99-115: the texts drawn for the two bounds
PaintValues(lo, hi) ==
    LET lo_str == IF lo # <<>> THEN format_number(lo[1], DefaultDecimals) ELSE <<>>
        hi_str == IF hi # <<>> THEN format_number(hi[1], DefaultDecimals) ELSE <<>>
    IN  IF lo # <<>> /\ hi # <<>>
        THEN PaintLoop(lo[1], hi[1], DefaultDecimals, lo_str, hi_str)
        ELSE [min_str |-> lo_str, max_str |-> hi_str, num_decimals |-> 0]

\* the bounds a legend is given: around zero, below and at the threshold, above it
IntParts == {0, 9999, 10000, 10500, 99999, 123456}
Fractions == {0, 1, 4, 33, 328, 2^14, FracUnits - 1}
Values == [neg : BOOLEAN, ip : IntParts, fr : Fractions]
Bounds == {<<>>} \cup {<<v>> : v \in Values}

\* LegendItem.__init__, lines 30-38
InitLegend ==
    /\ min_value \in Bounds
    /\ max_value \in Bounds
    /\ min_str = <<>>
    /\ max_str = <<>>
    /\ num_decimals = 0
    /\ painted = FALSE

paint ==
    /\ ~painted
    /\ LET r == PaintValues(min_value, max_value)
       IN  /\ min_str' = r.min_str
           /\ max_str' = r.max_str
           /\ num_decimals' = r.num_decimals
    /\ painted' = TRUE
    /\ UNCHANGED <<min_value, max_value>>

(***************************************************************************)
(* config.py: PlotConfig and LayerConfig, and what they write to the       *)
(* project. A plot dict is shared by the list that holds it and by every   *)
(* PlotConfig that wraps it, so the dicts live in a heap.                  *)
(***************************************************************************)
Addrs == 1..MaxDicts
Symbologies == {"<a/>"}
SymbologyTypes == {0, 1, 2}
NoSymbology == ""

\* LayerConfig.add_plot_config, lines 171-174, on the dict: the entry is appended to
\* the list of its kind under its root layer
AddPlot(config, r, kind, p) ==
    [config EXCEPT ![r].cfg[kind] = Append(@, p)]

RootLists ==
    {r \in UNION {[1..n -> InitIds] : n \in 1..Cardinality(InitIds)} :
        \A i, j \in DOMAIN r : r[i] = r[j] => i = j}

EmptyConfig(r) == [i \in DOMAIN r |-> [key |-> r[i], cfg |-> EmptySub]]

\* json.dumps of one plot dict: the keys it holds, in insertion order
DumpPlot(d) ==
    <<"{", "source", ToString(d.source)>>
    \o (IF d.symbology = NoSymbology THEN <<>>
        ELSE <<"symbology", d.symbology, "symbology_type", ToString(d.symbology_type)>>)
    \o <<"}">>

RECURSIVE DumpList(_, _)
DumpList(h, addrs) ==
    IF addrs = <<>> THEN <<>> ELSE DumpPlot(h[Head(addrs)]) \o DumpList(h, Tail(addrs))

DumpSub(h, sub) ==
    <<"{", "stratigraphy_config", "[">> \o DumpList(h, sub.stratigraphy_config)
    \o <<"]", "log_measures", "[">> \o DumpList(h, sub.log_measures)
    \o <<"]", "timeseries", "[">> \o DumpList(h, sub.timeseries) \o <<"]", "}">>

RECURSIVE DumpItems(_, _)
DumpItems(h, items) ==
    IF items = <<>> THEN <<>>
    ELSE <<ToString(Head(items).key)>> \o DumpSub(h, Head(items).cfg) \o DumpItems(h, Tail(items))

\* line 179: json.dumps(self.__parent_config)
Dumps(h, config) == <<"{">> \o DumpItems(h, config) \o <<"}">>

\* lines 141-144: _wrap makes a PlotConfig with parent=self for every listed dict
Wrap(sub) == {[dict |-> a, parent |-> TRUE] : a \in Range(Plots(sub))}

\* the index of root layer layer_id in the main configuration
RootIndex(config, layer_id) == CHOOSE i \in DOMAIN config : config[i].key = layer_id

\* PlotConfig.__init__, lines 29-41: the caller wraps a new dict
NewPlotConfig(source, parent) ==
    /\ \E a \in Addrs \ DOMAIN heap :
          /\ a = Min(Addrs \ DOMAIN heap)
          /\ heap' = (a :> [source |-> source, symbology |-> NoSymbology,
                            symbology_type |-> 0]) @@ heap
          /\ objs' = objs \cup {[dict |-> a, parent |-> parent]}
    /\ pop' = "PlotConfig"
    /\ UNCHANGED <<mem, persisted>>

\* lines 164-176, with config_modified (lines 178-180)
add_plot_config(layer_id, config_type, plot_config) ==
    /\ plot_config \in objs
    /\ layer_id \in Keys(mem)
    /\ Len(AllPlots(mem)) < MaxEntries
    /\ mem' = AddPlot(mem, RootIndex(mem, layer_id), config_type, plot_config.dict)
    /\ objs' = objs \cup Wrap(mem'[RootIndex(mem, layer_id)].cfg)
    /\ persisted' = Dumps(heap, mem')
    /\ pop' = "add_plot_config"
    /\ UNCHANGED heap

\* lines 99-115, with a symbology that is not None
set_symbology(plot_config, symbology, symbology_type) ==
    /\ plot_config \in objs
    /\ heap' = [heap EXCEPT ![plot_config.dict].symbology = symbology,
                            ![plot_config.dict].symbology_type = symbology_type]
    /\ persisted' = IF plot_config.parent THEN Dumps(heap', mem) ELSE persisted
    /\ pop' = "set_symbology"
    /\ UNCHANGED <<mem, objs>>

\* line 111: a symbology of None changes nothing
set_symbology_none(plot_config) ==
    /\ plot_config \in objs
    /\ pop' = "set_symbology_none"
    /\ UNCHANGED <<heap, mem, persisted, objs>>

\* the configuration was read from the project: root layers with empty lists
InitPersist ==
    /\ heap = <<>>
    /\ mem \in {EmptyConfig(r) : r \in RootLists}
    /\ persisted = Dumps(heap, mem)
    /\ objs = {}
    /\ pop = "init"

IdlePersist ==
    /\ heap = <<>>
    /\ mem = <<>>
    /\ persisted = <<>>
    /\ objs = {}
    /\ pop = "init"

(***************************************************************************)
(* Initial states: a project of two layers and a configuration over them   *)
(***************************************************************************)
\* the layers a project starts with: the base layer, varied in at most one of its
\* source, name, provider and subset string
BaseLayer == [source |-> <<"a">>, name |-> <<"n">>, provider |-> <<"o">>, filter |-> NoFilter]

Differences(l) == Cardinality({k \in DOMAIN BaseLayer : l[k] # BaseLayer[k]})

LayerRecs ==
    {l \in [source : Sources, name : Names, provider : Providers, filter : Filters] :
        Differences(l) <= 1}

RECURSIVE AddPlots(_, _)
AddPlots(config, adds) ==
    IF adds = <<>> THEN config
    ELSE AddPlots(AddPlot(config, Head(adds)[1], Head(adds)[2], [source |-> IdRef(Head(adds)[3])]),
                  Tail(adds))

InitConfigs ==
    UNION {{AddPlots(EmptyConfig(r), adds) :
               adds \in UNION {[1..n -> (DOMAIN r) \X Range(SubKeys) \X InitIds] :
                                  n \in 0..MaxPlots}} :
           r \in RootLists}

NoFile == [exists |-> FALSE, dict |-> <<>>]
NoImport == [ok |-> FALSE, config |-> <<>>, resolved |-> <<>>]

InitConfig ==
    /\ project \in [InitIds -> LayerRecs]
    /\ main_config \in InitConfigs
    /\ file = NoFile
    /\ imported = NoImport
    /\ used = InitIds
    /\ op = [name |-> "init", ow |-> FALSE, arg |-> 0, n |-> 0]
    /\ before = [project |-> project, config |-> main_config]

(***************************************************************************)
(* Operations                                                              *)
(***************************************************************************)
Snapshot == [project |-> project, config |-> main_config]

\* the user removes a layer from the QGIS project, which export_config then
\* finds missing (mapLayer returns None)
ProjectRemoveLayer(id) ==
    /\ op.n < MaxOps
    /\ id \in DOMAIN project
    /\ project' = [i \in DOMAIN project \ {id} |-> project[i]]
    /\ op' = [name |-> "project_remove", ow |-> FALSE, arg |-> id, n |-> op.n + 1]
    /\ before' = Snapshot
    /\ UNCHANGED <<main_config, file, imported, used>>

export_config ==
    /\ op.n < MaxOps
    /\ file' = [exists |-> TRUE, dict |-> ExportFile(project, main_config)]
    /\ main_config' = ExportCaller(project, main_config)
    /\ op' = [name |-> "export", ow |-> FALSE, arg |-> 0, n |-> op.n + 1]
    /\ before' = Snapshot
    /\ UNCHANGED <<project, imported, used>>

\* the layers a run of import_config adds to the project
ImportCreates(proj, r) == Cardinality(DOMAIN r.st.proj) - Cardinality(DOMAIN proj)

\* lines 249-282: what import_config leaves behind: the project with the layers it
\* added or renamed, and the configuration it returns (none when it raised)
ImportEffect(r) ==
    /\ project' = r.st.proj
    /\ used' = used \cup DOMAIN r.st.proj
    /\ imported' = [ok |-> r.ok,
                    config |-> IF r.ok THEN r.config ELSE <<>>,
                    resolved |-> r.st.log]

\* the new layers get identifiers that were never used, in any order; the call is
\* left out when the pool of identifiers does not hold enough of them
ImportWith(ow, free, probe) ==
    /\ ~probe.st.oom
    /\ \E fresh \in Orders(free, ImportCreates(project, probe)) :
          ImportEffect(ImportRun(project, file.dict, ow, fresh))

import_config(overwrite_existing) ==
    /\ op.n < MaxOps
    /\ file.exists
    /\ ImportWith(overwrite_existing, Ids \ used,
                  ImportRun(project, file.dict, overwrite_existing, Ascending(Ids \ used)))
    /\ op' = [name |-> "import", ow |-> overwrite_existing, arg |-> 0, n |-> op.n + 1]
    /\ before' = Snapshot
    /\ UNCHANGED <<main_config, file>>

remove_layer(layer_id) ==
    /\ op.n < MaxOps
    /\ main_config' = remove_layer_from_config(main_config, layer_id)
    /\ op' = [name |-> "remove", ow |-> FALSE, arg |-> layer_id, n |-> op.n + 1]
    /\ before' = Snapshot
    /\ UNCHANGED <<project, file, imported, used>>

\* a legend with no scale, never painted
IdleLegend ==
    /\ min_value = <<>>
    /\ max_value = <<>>
    /\ min_str = <<>>
    /\ max_str = <<>>
    /\ num_decimals = 0
    /\ painted = FALSE

\* an empty project and configuration
IdleConfig ==
    /\ project = <<>>
    /\ main_config = <<>>
    /\ file = NoFile
    /\ imported = NoImport
    /\ used = {}
    /\ op = [name |-> "init", ow |-> FALSE, arg |-> 0, n |-> 0]
    /\ before = [project |-> <<>>, config |-> <<>>]

\* export and import of a configuration, in a project whose layers may go away
Init == InitConfig /\ IdleLegend /\ IdlePersist

Next ==
    \/ (\E id \in Ids : ProjectRemoveLayer(id)) /\ UNCHANGED <<legvars, pervars>>
    \/ export_config /\ UNCHANGED <<legvars, pervars>>
    \/ (\E ow \in BOOLEAN : import_config(ow)) /\ UNCHANGED <<legvars, pervars>>

Spec == Init /\ [][Next]_vars

\* clean-up of a configuration
NextRemove == (\E id \in Ids : remove_layer(id)) /\ UNCHANGED <<legvars, pervars>>

SpecRemove == Init /\ [][NextRemove]_vars

\* the legend's value line
InitPaint == IdleConfig /\ InitLegend /\ IdlePersist

NextPaint == paint /\ UNCHANGED <<cfgvars, pervars>>

SpecLegend == InitPaint /\ [][NextPaint]_vars

\* the configuration object and what it persists
InitObjects == IdleConfig /\ IdleLegend /\ InitPersist

NextPersist ==
    \/ (\E src \in InitIds, parent \in BOOLEAN : NewPlotConfig(src, parent))
          /\ UNCHANGED <<cfgvars, legvars>>
    \/ (\E id \in InitIds, k \in Range(SubKeys), pc \in objs : add_plot_config(id, k, pc))
          /\ UNCHANGED <<cfgvars, legvars>>
    \/ (\E pc \in objs, sym \in Symbologies, t \in SymbologyTypes : set_symbology(pc, sym, t))
          /\ UNCHANGED <<cfgvars, legvars>>
    \/ (\E pc \in objs : set_symbology_none(pc)) /\ UNCHANGED <<cfgvars, legvars>>

SpecPersist == InitObjects /\ [][NextPersist]_vars

(***************************************************************************)
(* Properties of export_config, import_config and remove_layer_from_config *)
(***************************************************************************)
Exported == op.name = "export"
Imported == op.name = "import" /\ imported.ok

HasHash(str) == "#" \in Range(str)

\* the identifiers a configuration refers to
ConfigIds(config) == Keys(config) \cup {p.source.id : p \in Range(AllPlots(config))}

\* the triples of a file, root keys and plot sources alike
NumTriples(dict) == Len(dict) + Len(AllPlots(dict))

SameData(l, t) == l.source = t.source /\ l.provider = t.provider

\* C1: after export_config the file holds no internal layer identifier: every key
\* is the 'source#name#provider' string of a root layer of the configuration and
\* every plot entry's source is a triple, also when its layer is not in the project.
C1_ExportHasNoLayerId ==
    Exported =>
        /\ \A e \in Range(file.dict) :
              \E k \in Keys(before.config) \cap DOMAIN project : e.key = RootKey(project[k])
        /\ \A p \in Range(AllPlots(file.dict)) : IsTriple(p.source)

\* C10: export_config leaves the caller's configuration and the project as they were.
C10_ExportLeavesInput ==
    Exported => main_config = before.config /\ project = before.project

C10_Witness ==
    /\ Exported
    /\ \E p \in Range(AllPlots(file.dict)) : IsTriple(p.source)

\* the conditions of the round trip: every identifier of the configuration resolves,
\* no two layers share source and provider, and no string contains '#'
RoundTripProject(proj, config) ==
    /\ ConfigIds(config) \subseteq DOMAIN proj
    /\ \A i, j \in DOMAIN proj : SameData(proj[i], proj[j]) => i = j
    /\ \A i \in DOMAIN proj :
          ~HasHash(proj[i].source) /\ ~HasHash(proj[i].name) /\ ~HasHash(proj[i].provider)

RoundTrip ==
    /\ op.name = "import"
    /\ op.ow
    /\ RoundTripProject(before.project, main_config)
    /\ file.dict = ExportFile(before.project, main_config)

\* C2: import_config(f, overwrite_existing=True) of the file that export_config wrote
\* for configuration C returns C and adds no layer, in a project where every
\* identifier of C resolves, no two layers share (source, provider) and no string
\* contains '#'.
C2_RoundTrip ==
    RoundTrip =>
        /\ imported.ok
        /\ imported.config = main_config
        /\ DOMAIN project = DOMAIN before.project

C2_Witness ==
    /\ RoundTrip
    /\ Len(main_config) = 2
    /\ AllPlots(main_config) # <<>>
    /\ imported.config = main_config

\* the file asks for one layer under two names
RenameConflict(dict, log) ==
    \E i, j \in DOMAIN log :
        SameData(log[i].triple, log[j].triple) /\ log[i].triple.name # log[j].triple.name

ResolvedIds == {imported.resolved[i].id : i \in DOMAIN imported.resolved}

\* C3 as stated: after import_config returns, every identifier of the returned
\* configuration is a layer of the project whose source, name and provider are those
\* of the triple it was resolved from, and there is one root entry per file entry.
C3_AsStated ==
    Imported =>
        /\ ConfigIds(imported.config) \subseteq DOMAIN project
        /\ \A i \in DOMAIN imported.resolved :
              LET r == imported.resolved[i]
              IN  r.id \in DOMAIN project /\ Triple(project[r.id]) = r.triple
        /\ Len(imported.config) = Len(file.dict)

\* C3 amended: every identifier of the returned configuration is a layer of the
\* project with the source and provider of the triple it was resolved from; its name
\* is the triple's too, and there is one root entry per file entry, when
\* overwrite_existing is False or no two triples of the file share source and
\* provider under different names.
C3_ImportResolves ==
    Imported =>
        /\ ConfigIds(imported.config) \subseteq DOMAIN project
        /\ ConfigIds(imported.config) = ResolvedIds
        /\ \A i \in DOMAIN imported.resolved :
              LET r == imported.resolved[i]
              IN  r.id \in DOMAIN project /\ SameData(project[r.id], r.triple)
        /\ (~op.ow \/ ~RenameConflict(file.dict, imported.resolved)) =>
              /\ \A i \in DOMAIN imported.resolved :
                    LET r == imported.resolved[i]
                    IN  Triple(project[r.id]) = r.triple
              /\ Len(imported.config) = Len(file.dict)

\* an import that reused a layer of the project and gave it the triple's name
C3_Witness ==
    /\ Imported
    /\ op.ow
    /\ ~RenameConflict(file.dict, imported.resolved)
    /\ \E id \in ResolvedIds \cap DOMAIN before.project :
          project[id].name # before.project[id].name

FilteredTriples(proj) == {Triple(proj[i]) : i \in {j \in DOMAIN proj : proj[j].filter # NoFilter}}

\* the file is the one export_config writes in the project as it was before the import
SameProjectFile == file.dict = ExportFile(before.project, main_config)

\* C5 as stated: the exported record of a layer holds only source, name and provider,
\* and a layer that carries a filter in the exporting project corresponds, after
\* import_config with either value of overwrite_existing, to a layer with no filter.
C5_AsStated ==
    /\ Exported =>
          \A p \in Range(AllPlots(file.dict)) : "filter" \notin DOMAIN p.source
    /\ (Imported /\ SameProjectFile) =>
          \A i \in DOMAIN imported.resolved :
              LET r == imported.resolved[i]
              IN  (~r.root /\ r.triple \in FilteredTriples(before.project)) =>
                      project[r.id].filter = NoFilter

\* C5 amended: the exported record holds only source, name and provider; after
\* import_config with overwrite_existing False every resolved layer is new and carries
\* no filter; with overwrite_existing True a layer that is reused keeps the filter it
\* had and a layer that is created carries none.
C5_FilterDropped ==
    /\ Exported =>
          \A p \in Range(AllPlots(file.dict)) : "filter" \notin DOMAIN p.source
    /\ Imported =>
          \A id \in ResolvedIds :
              /\ ~op.ow => id \notin DOMAIN before.project
              /\ id \notin DOMAIN before.project => project[id].filter = NoFilter
              /\ id \in DOMAIN before.project => project[id].filter = before.project[id].filter

\* a filtered plot source layer was exported and imported back as new layers
C5_Witness ==
    /\ Imported
    /\ ~op.ow
    /\ SameProjectFile
    /\ \E i \in DOMAIN imported.resolved :
          LET r == imported.resolved[i]
          IN  /\ ~r.root
              /\ r.triple \in FilteredTriples(before.project)
              /\ project[r.id].filter = NoFilter

NewIds == DOMAIN project \ DOMAIN before.project

\* the (source, provider) pairs of the file that no layer of the project had
Unmatched ==
    {<<imported.resolved[i].triple.source, imported.resolved[i].triple.provider>> :
        i \in {j \in DOMAIN imported.resolved :
                  \A id \in DOMAIN before.project :
                      ~SameData(before.project[id], imported.resolved[j].triple)}}

C4_RemoveLeavesNoReference ==
    op.name = "remove" => op.arg \notin ConfigIds(main_config)

(***************************************************************************)
(* Properties of the legend                                                *)
(***************************************************************************)
BothSet == min_value # <<>> /\ max_value # <<>>

Differ(n) == format_number(min_value[1], n) # format_number(max_value[1], n)

Distinguishable == \E n \in DefaultDecimals..MaxDecimals : Differ(n)

\* the place of the first ch in str (0 when there is none)
IndexOf(str, ch) ==
    IF ch \in Range(str) THEN Min({i \in DOMAIN str : str[i] = ch}) ELSE 0

IsDigit(ch) == ch \in {"0", "1", "2", "3", "4", "5", "6", "7", "8", "9"}

Unsigned(str) == IF str # <<>> /\ Head(str) = "-" THEN Tail(str) ELSE str

\* d.de+XX
IsScientific(str) ==
    LET u == Unsigned(str)
    IN  /\ Len(u) >= 7
        /\ IsDigit(u[1]) /\ u[1] # "0" /\ u[2] = "." /\ IsDigit(u[3])
        /\ u[4] = "e" /\ u[5] = "+"
        /\ \A i \in 6..Len(u) : IsDigit(u[i])

\* digits, a point, n digits
IsFixedPoint(str, n) ==
    LET u == Unsigned(str)
        dot == IndexOf(u, ".")
    IN  /\ dot >= 2
        /\ Len(u) = dot + n
        /\ \A i \in DOMAIN u : i # dot => IsDigit(u[i])

\* C6: with both bounds set, paint formats both with the same number of decimals:
\* the least n in 1..4 at which the two formatted strings differ, or 4 when they
\* never do; the two texts differ whenever some n <= 4 tells the bounds apart.
C6_LeastDistinguishingPrecision ==
    (painted /\ BothSet) =>
        /\ num_decimals =
              IF Distinguishable
              THEN Min({n \in DefaultDecimals..MaxDecimals : Differ(n)})
              ELSE MaxDecimals
        /\ min_str = format_number(min_value[1], num_decimals)
        /\ max_str = format_number(max_value[1], num_decimals)
        /\ Distinguishable => min_str # max_str

\* the precision had to be raised twice
C6_Witness ==
    /\ painted
    /\ BothSet
    /\ num_decimals = 3
    /\ min_str # max_str

\* C7: format_number writes a value >= 10000 in scientific notation with one decimal
\* digit whatever n is, and a value < 10000 in fixed-point notation with n decimals;
\* two bounds >= 10000 with the same mantissa and exponent are drawn as the same
\* text, the loop having reached its cap.
C7_ScientificFromThreshold ==
    /\ \A b \in {min_value, max_value} \ {<<>>} :
          \A n \in DefaultDecimals..MaxDecimals :
              IF LessThan(b[1], SciThreshold)
              THEN IsFixedPoint(format_number(b[1], n), n)
              ELSE /\ IsScientific(format_number(b[1], n))
                   /\ format_number(b[1], n) = format_number(b[1], DefaultDecimals)
    /\ (/\ painted
        /\ BothSet
        /\ ~LessThan(min_value[1], SciThreshold)
        /\ ~LessThan(max_value[1], SciThreshold)
        /\ format_number(min_value[1], DefaultDecimals)
              = format_number(max_value[1], DefaultDecimals))
       => (min_str = max_str /\ num_decimals = MaxDecimals)

\* two different bounds above the threshold, drawn as one text
C7_Witness ==
    /\ painted
    /\ BothSet
    /\ min_value[1].ip # max_value[1].ip
    /\ ~LessThan(min_value[1], SciThreshold)
    /\ ~LessThan(max_value[1], SciThreshold)
    /\ min_str = max_str
    /\ num_decimals = MaxDecimals

(***************************************************************************)
(* Properties of LayerConfig and PlotConfig                                *)
(***************************************************************************)
\* C9: after add_plot_config, and after set_symbology with a symbology that is not
\* None on any plot object (one a getter returned or one that was passed to
\* add_plot_config), the project entry is the JSON text of the in-memory configuration.
C9_PersistedNeverLags ==
    pop \in {"add_plot_config", "set_symbology"} => persisted = Dumps(heap, mem)

====
